---- MODULE Spec2Model ----
(***************************************************************************)
(* World of Bits (D3.d version): the cell-state engine of a grid game laid *)
(* over geographic coordinates.  The model follows the program text of the *)
(* persistent version (override store "cellCache" + localStorage save).    *)
(*                                                                         *)
(* Geographic coordinates are integers in units of 1e-5 degree, so that    *)
(* the floor division of latLngToCell is computed, not assumed.            *)
(***************************************************************************)
EXTENDS Integers, Sequences, FiniteSets, TLC

\* ------------------------------------------------------------------------
\* CONFIGURATION
\* ------------------------------------------------------------------------
CLASSROOM_LOCATION == [lat |-> 3698949, lng |-> -12206278]
TILE_DEGREES == 10
NEIGHBORHOOD_SIZE == 8
CACHE_SPAWN_PROBABILITY == 10
TARGET_TOKEN_VALUE == 32
INTERACT_DISTANCE == 3

\* the JavaScript null of playerInventory and watchId
null == -1

\* ------------------------------------------------------------------------
\* Bounds of the exploration
\* ------------------------------------------------------------------------
\* the player stays within MaxNorth cells north and MaxEast cells east of
\* the start cell
MaxNorth == 6
MaxEast == 1
\* number of times ButtonMovement.enable is explored
MaxListeners == 2

VARIABLES
    playerLocation,     \* gameState.playerLocation : Cell
    playerInventory,    \* gameState.playerInventory : number | null
    cellTokens,         \* gameState.cellTokens : Map key -> value
    cellCache,          \* cellCache : Map key -> CellMemento
    gridElements,       \* the cells of the rectangles (click handlers) on the map, in push order
    localStorage,       \* the item stored under SAVE_KEY, if any
    storageAvailable,   \* whether localStorage.setItem succeeds
    alerts,             \* the alert() calls of the last handler, in order
    currentMovement,    \* "buttons" or "geo"
    panelAttached,      \* ButtonMovement.controlPanel is in the document
    listeners,          \* click listeners registered on each panel button
    watchId,            \* GeolocationMovement.watchId
    seed,               \* which hash function _luck.ts is
    loaded,             \* what the last call of _loadGameState returned
    victories           \* victory alerts shown since the page was loaded

vars == <<playerLocation, playerInventory, cellTokens, cellCache, gridElements,
          localStorage, storageAvailable, alerts, currentMovement,
          panelAttached, listeners, watchId, seed, loaded, victories>>

\* ------------------------------------------------------------------------
\* Maps (JavaScript Map used as key -> value)
\* ------------------------------------------------------------------------
EmptyMap == [k \in {} |-> 0]

MapSet(m, k, v) == [x \in (DOMAIN m) \cup {k} |-> IF x = k THEN v ELSE m[x]]

MapDelete(m, k) == [x \in (DOMAIN m) \ {k} |-> m[x]]

Abs(x) == IF x < 0 THEN -x ELSE x

Max(a, b) == IF a >= b THEN a ELSE b

\* ------------------------------------------------------------------------
\* UTILITY FUNCTIONS
\* ------------------------------------------------------------------------
\* `${cell.i},${cell.j}`: the key is the pair of the two integers; the text
\* form names each pair of integers by one string and is not modelled further
getCellKey(cell) == <<cell.i, cell.j>>

latLngToCell(latLng) ==
    [i |-> latLng.lat \div TILE_DEGREES, j |-> latLng.lng \div TILE_DEGREES]

\* (mutant) the distance in steps instead of the larger coordinate difference
cellDistanceManhattan(a, b) == Abs(a.i - b.i) + Abs(a.j - b.j)

cellDistance(a, b) == Max(Abs(a.i - b.i), Abs(a.j - b.j))

\* (mutant) every cell in view can be interacted with
isInteractableInView(cell, loc) == cellDistance(cell, loc) <= NEIGHBORHOOD_SIZE

isInteractable(cell, loc) == cellDistance(cell, loc) <= INTERACT_DISTANCE

StartCell == latLngToCell(CLASSROOM_LOCATION)

Offset(di, dj) == [i |-> StartCell.i + di, j |-> StartCell.j + dj]

\* ------------------------------------------------------------------------
\* TOKEN SPAWNING
\* ------------------------------------------------------------------------
\* _luck.ts: a deterministic hash of the key into [0,1), here in percent.
\* Each seed is one hash function; it is fixed for the whole run.  The third
\* one favours a block of 64 cells, enough tokens for two tokens of value 32.
Seeds == {1, 2}

LuckyCells ==
    << {Offset(-3, 0), Offset(-2, 1)},
       {Offset(-3, 0), Offset(-3, 1), Offset(-2, 0), Offset(-2, 1)},
       {Offset(di, dj) : di \in (-3)..4, dj \in (-3)..4} >>

LuckyKeys ==
    << {getCellKey(c) : c \in LuckyCells[1]}, {getCellKey(c) : c \in LuckyCells[2]},
       {getCellKey(c) : c \in LuckyCells[3]} >>

luck(key) == IF key \in LuckyKeys[seed] THEN 5 ELSE 50

\* (mutant) the decision also depends on where the player is when it is taken
shouldCellHaveTokenInReach(cell) ==
    /\ luck(getCellKey(cell)) < CACHE_SPAWN_PROBABILITY
    /\ cellDistance(cell, playerLocation) <= INTERACT_DISTANCE

shouldCellHaveToken(cell) == luck(getCellKey(cell)) < CACHE_SPAWN_PROBABILITY

\* ------------------------------------------------------------------------
\* CACHE MANAGEMENT
\* ------------------------------------------------------------------------
\* (mutant) the record is not written
saveCellLost(cc, cell, coins) == cc

\* (mutant) a picked-up cell is removed from the store, as removeCell would
saveCellRemoving(cc, cell, coins) ==
    IF coins = 0 THEN MapDelete(cc, getCellKey(cell))
    ELSE MapSet(cc, getCellKey(cell), [i |-> cell.i, j |-> cell.j, coins |-> coins])

saveCell(cc, cell, coins) ==
    MapSet(cc, getCellKey(cell), [i |-> cell.i, j |-> cell.j, coins |-> coins])

\* (mutant) the lookup never finds a record
loadCellMiss(cc, cell) == <<>>

\* <<memento>> when cached, <<>> for null
loadCell(cc, cell) ==
    LET key == getCellKey(cell)
    IN  IF key \in DOMAIN cc THEN <<cc[key]>> ELSE <<>>

\* (mutant) the generated default is used without looking at the store
initializeCellTokenNoCache(ct, cc, cell) ==
    LET key == getCellKey(cell)
    IN  IF key \in DOMAIN ct THEN ct
        ELSE IF shouldCellHaveToken(cell) THEN MapSet(ct, key, 1)
             ELSE ct

\* (mutant) a generated token has value 3
initializeCellTokenThree(ct, cc, cell) ==
    LET key == getCellKey(cell)
        cached == loadCell(cc, cell)
    IN  IF key \in DOMAIN ct THEN ct
        ELSE IF cached # <<>>
             THEN IF cached[1].coins > 0 THEN MapSet(ct, key, cached[1].coins)
                  ELSE ct
             ELSE IF shouldCellHaveToken(cell) THEN MapSet(ct, key, 3)
                  ELSE ct

initializeCellToken(ct, cc, cell) ==
    LET key == getCellKey(cell)
        cached == loadCell(cc, cell)
    IN  IF key \in DOMAIN ct THEN ct
        ELSE IF cached # <<>>
             THEN IF cached[1].coins > 0 THEN MapSet(ct, key, cached[1].coins)
                  ELSE ct
             ELSE IF shouldCellHaveToken(cell) THEN MapSet(ct, key, 1)
                  ELSE ct

\* ------------------------------------------------------------------------
\* GRID RENDERING
\* ------------------------------------------------------------------------
Side == 2 * NEIGHBORHOOD_SIZE + 1

\* (mutant) the inner loop stops one cell early (dj < NEIGHBORHOOD_SIZE)
loopCellsShort(playerCell) ==
    [n \in 1..(Side * (Side - 1)) |->
        [i |-> playerCell.i + ((n - 1) \div (Side - 1)) - NEIGHBORHOOD_SIZE,
         j |-> playerCell.j + ((n - 1) % (Side - 1)) - NEIGHBORHOOD_SIZE]]

\* the cells the two nested loops visit (di outer, dj inner), in that order
loopCells(playerCell) ==
    [n \in 1..(Side * Side) |->
        [i |-> playerCell.i + ((n - 1) \div Side) - NEIGHBORHOOD_SIZE,
         j |-> playerCell.j + ((n - 1) % Side) - NEIGHBORHOOD_SIZE]]

\* cellTokens after the loop has called initializeCellToken on every cell.
\* A call reads and writes only the key of its own cell, and the cells of the
\* loop have pairwise different keys, so the loop's result is the map it
\* started with plus what each single call adds to that map.
initializeLoop(cells, ct, cc) ==
    LET after == {initializeCellToken(ct, cc, cells[n]) : n \in 1..Len(cells)}
        keys == UNION {DOMAIN m : m \in after}
    IN  [k \in keys |-> IF k \in DOMAIN ct THEN ct[k]
                        ELSE (CHOOSE m \in after : k \in DOMAIN m)[k]]

\* (mutant) off-screen cells are not removed from cellTokens
renderGridKeepAll(playerCell, ct, cc) ==
    LET cells == loopCells(playerCell)
    IN  [cellTokens   |-> initializeLoop(cells, ct, cc),
         gridElements |-> cells]

renderGrid(playerCell, ct, cc) ==
    LET cells == loopCells(playerCell)
        visibleCells == {getCellKey(cells[n]) : n \in 1..Len(cells)}
        looped == initializeLoop(cells, ct, cc)
        cellsToRemove == {key \in DOMAIN looped : key \notin visibleCells}
    IN  [cellTokens   |-> [k \in (DOMAIN looped) \ cellsToRemove |-> looped[k]],
         gridElements |-> cells]

\* ------------------------------------------------------------------------
\* GAME STATE PERSISTENCE
\* ------------------------------------------------------------------------
\* the content of localStorage under SAVE_KEY: <<>> when there is no item,
\* <<data>> when there is one
NoItem == <<>>

\* (mutant) the save is written without the override records
saveGameStateNoStore(loc, inv, cc) ==
    << [playerLocation  |-> loc,
        playerInventory |-> inv,
        cellCache       |-> {}] >>

\* the new content of localStorage: the SaveData that JSON.stringify writes,
\* with the mementos without their Map keys (Array.from(cellCache.values());
\* the order of the array is left out)
saveGameState(loc, inv, cc) ==
    << [playerLocation  |-> loc,
        playerInventory |-> inv,
        cellCache       |-> {cc[k] : k \in DOMAIN cc}] >>

\* JSON.parse(saved): a stored text that is not JSON is the item
\* <<[text |-> ...]>>, any other item holds the value the text parses to
JSONparse(saved) ==
    IF "text" \in DOMAIN saved[1] THEN [threw |-> TRUE]
    ELSE [threw |-> FALSE, value |-> saved[1]]

\* saveData.cellCache.forEach exists: the property is there and is an array.
\* (A cellCache property that is not an array is held under the field
\* cellCacheValue of the parsed value.)
hasForEach(saveData) == "cellCache" \in DOMAIN saveData

\* (mutant) the key is built from j and i instead of i and j
restoreCacheTransposed(mementos) ==
    [key \in {<<m.j, m.i>> : m \in mementos} |->
        CHOOSE m \in mementos : <<m.j, m.i>> = key]

\* the Map that the forEach of _loadGameState fills, keyed by getCellKey
restoreCache(mementos) ==
    [key \in {getCellKey(m) : m \in mementos} |->
        CHOOSE m \in mementos : getCellKey(m) = key]

\* _loadGameState on the in-memory state S = [playerLocation, playerInventory,
\* cellCache, returned]; the result holds the new in-memory state and the
\* value returned.  The assignments before a throwing statement stay.
_loadGameState(saved, S) ==
    IF saved = NoItem THEN [S EXCEPT !.returned = "false"]
    ELSE LET parsed == JSONparse(saved)
         IN  IF parsed.threw THEN [S EXCEPT !.returned = "false"]
             ELSE LET saveData == parsed.value
                  IN  IF ~hasForEach(saveData)
                      THEN [playerLocation  |-> saveData.playerLocation,
                            playerInventory |-> saveData.playerInventory,
                            cellCache       |-> EmptyMap,
                            returned        |-> "false"]
                      ELSE [playerLocation  |-> saveData.playerLocation,
                            playerInventory |-> saveData.playerInventory,
                            cellCache       |-> restoreCache(saveData.cellCache),
                            returned        |-> "true"]

\* (mutant) the win is announced only for the threshold value itself
checkWinConditionExact(inv) ==
    IF inv # null /\ inv = TARGET_TOKEN_VALUE THEN <<"victory">> ELSE <<>>

checkWinCondition(inv) ==
    IF inv # null /\ inv >= TARGET_TOKEN_VALUE THEN <<"victory">> ELSE <<>>

\* ------------------------------------------------------------------------
\* MOVEMENT SYSTEM
\* ------------------------------------------------------------------------
\* the part of the state a movement listener writes
Current ==
    [playerLocation |-> playerLocation, cellTokens |-> cellTokens,
     gridElements |-> gridElements, localStorage |-> localStorage]

InBox(loc) ==
    /\ loc.i - StartCell.i \in 0..MaxNorth
    /\ loc.j - StartCell.j \in 0..MaxEast

\* save, then render; a throwing setItem ends the listener before the render
saveAndRender(S, loc) ==
    IF storageAvailable
    THEN LET r == renderGrid(loc, S.cellTokens, cellCache)
         IN  [playerLocation |-> loc,
              localStorage   |-> saveGameState(loc, playerInventory, cellCache),
              cellTokens     |-> r.cellTokens,
              gridElements   |-> r.gridElements]
    ELSE [S EXCEPT !.playerLocation = loc]

movePlayer(S, di, dj) ==
    saveAndRender(S, [i |-> S.playerLocation.i + di, j |-> S.playerLocation.j + dj])

\* (mutant) the return home is rendered and not saved
returnHomeUnsaved(S) ==
    [saveAndRender(S, latLngToCell(CLASSROOM_LOCATION)) EXCEPT
        !.localStorage = S.localStorage]

\* listener of the panel's "reset" button: return to the classroom
returnHome(S) == saveAndRender(S, latLngToCell(CLASSROOM_LOCATION))

\* a click on a panel button runs every listener registered on it
RECURSIVE dispatchMove(_, _, _, _)
dispatchMove(n, S, di, dj) ==
    IF n = 0 THEN S ELSE dispatchMove(n - 1, movePlayer(S, di, dj), di, dj)

RECURSIVE dispatchHome(_, _)
dispatchHome(n, S) ==
    IF n = 0 THEN S ELSE dispatchHome(n - 1, returnHome(S))

Commit(S) ==
    /\ playerLocation' = S.playerLocation
    /\ cellTokens' = S.cellTokens
    /\ gridElements' = S.gridElements
    /\ localStorage' = S.localStorage

ButtonClick(di, dj) ==
    /\ panelAttached
    /\ LET S == dispatchMove(listeners, Current, di, dj)
       IN  /\ InBox(S.playerLocation)
           /\ Commit(S)
    /\ alerts' = <<>>
    /\ UNCHANGED <<playerInventory, cellCache, storageAvailable, currentMovement,
                   panelAttached, listeners, watchId, seed, loaded, victories>>

north == ButtonClick(1, 0)

south == ButtonClick(-1, 0)

west == ButtonClick(0, -1)

east == ButtonClick(0, 1)

reset ==
    /\ panelAttached
    /\ Commit(dispatchHome(listeners, Current))
    /\ alerts' = <<>>
    /\ UNCHANGED <<playerInventory, cellCache, storageAvailable, currentMovement,
                   panelAttached, listeners, watchId, seed, loaded, victories>>

\* positions the geolocation watch may report: the classroom itself, the far
\* corner of its cell, the first point of the cell north-east of it, and the
\* last point of the northernmost cell of the explored box
GeoFixes ==
    {[latitude  |-> CLASSROOM_LOCATION.lat, longitude |-> CLASSROOM_LOCATION.lng],
     [latitude  |-> (StartCell.i + 1) * TILE_DEGREES - 1,
      longitude |-> (StartCell.j + 1) * TILE_DEGREES - 1],
     [latitude  |-> (StartCell.i + 1) * TILE_DEGREES,
      longitude |-> (StartCell.j + 1) * TILE_DEGREES],
     [latitude  |-> (StartCell.i + MaxNorth + 1) * TILE_DEGREES - 1,
      longitude |-> StartCell.j * TILE_DEGREES]}

\* (mutant) the callback saves the new location and leaves the grid as it is
watchPositionUnrendered(position) ==
    /\ watchId # null
    /\ LET newLocation == latLngToCell([lat |-> position.latitude,
                                        lng |-> position.longitude])
       IN  IF newLocation.i # playerLocation.i \/ newLocation.j # playerLocation.j
           THEN /\ playerLocation' = newLocation
                /\ localStorage' = saveGameState(newLocation, playerInventory, cellCache)
                /\ UNCHANGED <<cellTokens, gridElements>>
           ELSE UNCHANGED <<playerLocation, cellTokens, gridElements, localStorage>>
    /\ alerts' = <<>>
    /\ UNCHANGED <<playerInventory, cellCache, storageAvailable, currentMovement,
                   panelAttached, listeners, watchId, seed, loaded, victories>>

\* (mutant) the callback returns after the assignment of the location; the
\* save and the render are left to a later task
watchPositionTorn(position) ==
    /\ watchId # null
    /\ playerLocation' = latLngToCell([lat |-> position.latitude,
                                       lng |-> position.longitude])
    /\ alerts' = <<>>
    /\ UNCHANGED <<cellTokens, gridElements, localStorage, playerInventory,
                   cellCache, storageAvailable, currentMovement, panelAttached,
                   listeners, watchId, seed, loaded, victories>>

\* (mutant) the callback saves and renders for every fix
watchPositionEveryFix(position) ==
    /\ watchId # null
    /\ LET newLocation == latLngToCell([lat |-> position.latitude,
                                        lng |-> position.longitude])
       IN  Commit(saveAndRender(Current, newLocation))
    /\ alerts' = <<>>
    /\ UNCHANGED <<playerInventory, cellCache, storageAvailable, currentMovement,
                   panelAttached, listeners, watchId, seed, loaded, victories>>

\* success callback of watchPosition
watchPosition(position) ==
    /\ watchId # null
    /\ LET newLocation == latLngToCell([lat |-> position.latitude,
                                        lng |-> position.longitude])
       IN  IF newLocation.i # playerLocation.i \/ newLocation.j # playerLocation.j
           THEN Commit(saveAndRender(Current, newLocation))
           ELSE UNCHANGED <<playerLocation, cellTokens, gridElements, localStorage>>
    /\ alerts' = <<>>
    /\ UNCHANGED <<playerInventory, cellCache, storageAvailable, currentMovement,
                   panelAttached, listeners, watchId, seed, loaded, victories>>

\* (mutant) the provider that was current is not disabled
switchMovementModeNoDisable(mode) ==
    /\ mode # currentMovement
    /\ mode = "buttons" => listeners < MaxListeners
    /\ currentMovement' = mode
    /\ IF mode = "geo"
       THEN /\ watchId' = 1
            /\ UNCHANGED <<panelAttached, listeners>>
       ELSE /\ panelAttached' = TRUE
            /\ listeners' = listeners + 1
            /\ UNCHANGED watchId
    /\ alerts' = <<>>
    /\ UNCHANGED <<playerLocation, playerInventory, cellTokens, cellCache,
                   gridElements, localStorage, storageAvailable, seed, loaded,
                   victories>>

\* change listener of the movement radio buttons
switchMovementMode(mode) ==
    /\ mode # currentMovement
    /\ mode = "buttons" => listeners < MaxListeners
    /\ currentMovement' = mode
    /\ IF mode = "geo"
       THEN /\ watchId' = 1
            /\ panelAttached' = IF currentMovement = "buttons" THEN FALSE
                                ELSE panelAttached
            /\ listeners' = listeners
       ELSE /\ panelAttached' = TRUE
            /\ listeners' = listeners + 1
            /\ watchId' = IF currentMovement = "geo" THEN null ELSE watchId
    /\ alerts' = <<>>
    /\ UNCHANGED <<playerLocation, playerInventory, cellTokens, cellCache,
                   gridElements, localStorage, storageAvailable, seed, loaded,
                   victories>>

\* ------------------------------------------------------------------------
\* GAME MECHANICS
\* ------------------------------------------------------------------------
\* (mutant) the click also writes every token in view into the override store
finishClickMaterialize(inv, ct, cc, said) ==
    LET r == renderGrid(playerLocation, ct, cc)
        all == [k \in (DOMAIN cc) \cup (DOMAIN r.cellTokens) |->
                   IF k \in DOMAIN cc THEN cc[k]
                   ELSE [i |-> k[1], j |-> k[2], coins |-> r.cellTokens[k]]]
    IN  /\ playerInventory' = inv
        /\ cellCache' = all
        /\ localStorage' = saveGameState(playerLocation, inv, all)
        /\ cellTokens' = r.cellTokens
        /\ gridElements' = r.gridElements
        /\ alerts' = said \o checkWinCondition(inv)
        /\ victories' = victories + Len(checkWinCondition(inv))
        /\ UNCHANGED playerLocation

\* (mutant) a craft leaves the crafted-in token in the player's hand
finishClickHolding(inv, ct, cc, said) ==
    /\ playerInventory' = (IF inv = null THEN playerInventory ELSE inv)
    /\ cellCache' = cc
    /\ IF storageAvailable
       THEN LET r == renderGrid(playerLocation, ct, cc)
            IN  /\ localStorage' = saveGameState(playerLocation, playerInventory', cc)
                /\ cellTokens' = r.cellTokens
                /\ gridElements' = r.gridElements
                /\ alerts' = said \o checkWinCondition(playerInventory')
                /\ victories' = victories + Len(checkWinCondition(playerInventory'))
       ELSE /\ cellTokens' = ct
            /\ alerts' = <<>>
            /\ UNCHANGED <<localStorage, gridElements, victories>>
    /\ UNCHANGED playerLocation

\* the tail of a successful pickup or craft: saveGameState, renderGrid, alerts
finishClick(inv, ct, cc, said) ==
    /\ playerInventory' = inv
    /\ cellCache' = cc
    /\ IF storageAvailable
       THEN LET r == renderGrid(playerLocation, ct, cc)
            IN  /\ localStorage' = saveGameState(playerLocation, inv, cc)
                /\ cellTokens' = r.cellTokens
                /\ gridElements' = r.gridElements
                /\ alerts' = said \o checkWinCondition(inv)
                /\ victories' = victories + Len(checkWinCondition(inv))
       ELSE /\ cellTokens' = ct
            /\ alerts' = <<>>
            /\ UNCHANGED <<localStorage, gridElements, victories>>
    /\ UNCHANGED playerLocation

\* (mutant) a rejected click still writes the save
rejectClickSaving(said) ==
    /\ alerts' = <<said>>
    /\ localStorage' = saveGameState(playerLocation, playerInventory, cellCache)
    /\ UNCHANGED <<playerLocation, playerInventory, cellTokens, cellCache,
                   gridElements, victories>>

rejectClick(said) ==
    /\ alerts' = <<said>>
    /\ UNCHANGED <<playerLocation, playerInventory, cellTokens, cellCache,
                   gridElements, localStorage, victories>>

\* (mutant) the craft records the cell's old value instead of the new one
handleCellClickStaleSave(cell) ==
    /\ LET key == getCellKey(cell)
       IN  IF ~isInteractable(cell, playerLocation) THEN rejectClick("tooFar")
           ELSE IF playerInventory = null
           THEN IF key \in DOMAIN cellTokens
                THEN finishClick(cellTokens[key], MapDelete(cellTokens, key),
                                 saveCell(cellCache, cell, 0), <<>>)
                ELSE rejectClick("empty")
           ELSE IF key \notin DOMAIN cellTokens THEN rejectClick("emptyCraft")
           ELSE IF cellTokens[key] = playerInventory
           THEN finishClick(null, MapSet(cellTokens, key, cellTokens[key] * 2),
                            saveCell(cellCache, cell, cellTokens[key]),
                            <<"crafted">>)
           ELSE rejectClick("mismatch")
    /\ UNCHANGED <<storageAvailable, currentMovement, panelAttached, listeners,
                   watchId, seed, loaded>>

\* (mutant) a held token is put down on an empty cell
handleCellClickDrop(cell) ==
    /\ LET key == getCellKey(cell)
       IN  IF ~isInteractable(cell, playerLocation) THEN rejectClick("tooFar")
           ELSE IF playerInventory = null
           THEN IF key \in DOMAIN cellTokens
                THEN finishClick(cellTokens[key], MapDelete(cellTokens, key),
                                 saveCell(cellCache, cell, 0), <<>>)
                ELSE rejectClick("empty")
           ELSE IF key \notin DOMAIN cellTokens
           THEN finishClick(null, MapSet(cellTokens, key, playerInventory),
                            saveCell(cellCache, cell, playerInventory), <<>>)
           ELSE IF cellTokens[key] = playerInventory
           THEN finishClick(null, MapSet(cellTokens, key, cellTokens[key] * 2),
                            saveCell(cellCache, cell, cellTokens[key] * 2),
                            <<"crafted">>)
           ELSE rejectClick("mismatch")
    /\ UNCHANGED <<storageAvailable, currentMovement, panelAttached, listeners,
                   watchId, seed, loaded>>

\* (mutant) a click on a token of another value swaps it with the one held
handleCellClickSwap(cell) ==
    /\ LET key == getCellKey(cell)
       IN  IF ~isInteractable(cell, playerLocation) THEN rejectClick("tooFar")
           ELSE IF playerInventory = null
           THEN IF key \in DOMAIN cellTokens
                THEN finishClick(cellTokens[key], MapDelete(cellTokens, key),
                                 saveCell(cellCache, cell, 0), <<>>)
                ELSE rejectClick("empty")
           ELSE IF key \notin DOMAIN cellTokens THEN rejectClick("emptyCraft")
           ELSE IF cellTokens[key] = playerInventory
           THEN finishClick(null, MapSet(cellTokens, key, cellTokens[key] * 2),
                            saveCell(cellCache, cell, cellTokens[key] * 2),
                            <<"crafted">>)
           ELSE finishClick(cellTokens[key], MapSet(cellTokens, key, playerInventory),
                            saveCell(cellCache, cell, playerInventory), <<>>)
    /\ UNCHANGED <<storageAvailable, currentMovement, panelAttached, listeners,
                   watchId, seed, loaded>>

handleCellClick(cell) ==
    /\ LET key == getCellKey(cell)
       IN  IF ~isInteractable(cell, playerLocation) THEN rejectClick("tooFar")
           ELSE IF playerInventory = null
           THEN IF key \in DOMAIN cellTokens
                THEN finishClick(cellTokens[key], MapDelete(cellTokens, key),
                                 saveCell(cellCache, cell, 0), <<>>)
                ELSE rejectClick("empty")
           ELSE IF key \notin DOMAIN cellTokens THEN rejectClick("emptyCraft")
           ELSE IF cellTokens[key] = playerInventory
           THEN finishClick(null, MapSet(cellTokens, key, cellTokens[key] * 2),
                            saveCell(cellCache, cell, cellTokens[key] * 2),
                            <<"crafted">>)
           ELSE rejectClick("mismatch")
    /\ UNCHANGED <<storageAvailable, currentMovement, panelAttached, listeners,
                   watchId, seed, loaded>>

\* the rectangles a click is tried on: the cells a hash function of Seeds may
\* favour, two cells no hash function favours, and a cell further north
ClickTargets ==
    LuckyCells[2] \cup {Offset(-1, 0), Offset(0, 0), Offset(MaxNorth, 1)}

\* click on a rectangle of the rendered grid
rectClick ==
    \E n \in 1..Len(gridElements) :
        /\ gridElements[n] \in ClickTargets
        /\ handleCellClick(gridElements[n])

\* (mutant) the reset leaves the stored item in place
resetGameStateKeepSave ==
    LET home == latLngToCell(CLASSROOM_LOCATION)
        r == renderGrid(home, EmptyMap, EmptyMap)
    IN  /\ localStorage' = localStorage
        /\ playerLocation' = home
        /\ playerInventory' = null
        /\ cellCache' = EmptyMap
        /\ cellTokens' = r.cellTokens
        /\ gridElements' = r.gridElements

resetGameState ==
    LET home == latLngToCell(CLASSROOM_LOCATION)
        r == renderGrid(home, EmptyMap, EmptyMap)
    IN  /\ localStorage' = NoItem
        /\ playerLocation' = home
        /\ playerInventory' = null
        /\ cellCache' = EmptyMap
        /\ cellTokens' = r.cellTokens
        /\ gridElements' = r.gridElements

\* click on "New Game": confirm(), then resetGameState
resetGame ==
    /\ \E confirmed \in BOOLEAN :
          IF confirmed THEN resetGameState
          ELSE UNCHANGED <<localStorage, playerLocation, playerInventory,
                           cellCache, cellTokens, gridElements>>
    /\ alerts' = <<>>
    /\ UNCHANGED <<storageAvailable, currentMovement, panelAttached, listeners,
                   watchId, seed, loaded, victories>>

\* ------------------------------------------------------------------------
\* INITIALIZATION: the state when the module has been evaluated
\* ------------------------------------------------------------------------
Init ==
    /\ seed \in Seeds
    /\ playerLocation = latLngToCell(CLASSROOM_LOCATION)
    /\ playerInventory = null
    /\ cellCache = EmptyMap
    /\ LET r == renderGrid(playerLocation, EmptyMap, cellCache)
       IN  /\ cellTokens = r.cellTokens
           /\ gridElements = r.gridElements
    /\ localStorage = NoItem
    /\ storageAvailable = TRUE
    /\ alerts = <<>>
    /\ loaded = "none"
    /\ victories = 0
    /\ \E movementMode \in {"buttons", "geo"} :
          /\ currentMovement = movementMode
          /\ panelAttached = (movementMode = "buttons")
          /\ listeners = (IF movementMode = "buttons" THEN 1 ELSE 0)
          /\ watchId = (IF movementMode = "geo" THEN 1 ELSE null)

Next ==
    \/ north
    \/ south
    \/ west
    \/ east
    \/ reset
    \/ \E position \in GeoFixes : watchPosition(position)
    \/ \E mode \in {"buttons", "geo"} : switchMovementMode(mode)
    \/ rectClick
    \/ resetGame

Spec == Init /\ [][Next]_vars

\* ------------------------------------------------------------------------
\* _loadGameState, applied to what the page finds under SAVE_KEY
\* ------------------------------------------------------------------------
\* what _loadGameState reads and writes
InMemory ==
    [playerLocation |-> playerLocation, playerInventory |-> playerInventory,
     cellCache |-> cellCache, returned |-> loaded]

\* a call of _loadGameState; it renders nothing
callLoadGameState ==
    /\ LET r == _loadGameState(localStorage, InMemory)
       IN  /\ playerLocation' = r.playerLocation
           /\ playerInventory' = r.playerInventory
           /\ cellCache' = r.cellCache
           /\ loaded' = r.returned
    /\ alerts' = <<>>
    /\ UNCHANGED <<cellTokens, gridElements, localStorage, storageAvailable,
                   currentMovement, panelAttached, listeners, watchId, seed,
                   victories>>

\* saveGameState() followed by _loadGameState()
saveThenLoad ==
    /\ storageAvailable
    /\ localStorage' = saveGameState(playerLocation, playerInventory, cellCache)
    /\ LET r == _loadGameState(localStorage', InMemory)
       IN  /\ playerLocation' = r.playerLocation
           /\ playerInventory' = r.playerInventory
           /\ cellCache' = r.cellCache
           /\ loaded' = r.returned
    /\ alerts' = <<>>
    /\ UNCHANGED <<cellTokens, gridElements, storageAvailable, currentMovement,
                   panelAttached, listeners, watchId, seed, victories>>

\* the hash function of the sessions with stored items and restarts
SessionSeed == 1

\* saves an earlier session of the game has written: the player has picked up
\* one token, crafted it onto the other, [picked the result up,] and moved
EarlierSaves ==
    {saveGameState(Offset(2, 0), null,
                   saveCell(saveCell(EmptyMap, Offset(-3, 0), 0), Offset(-2, 1), 2)),
     saveGameState(Offset(1, 1), 2,
                   saveCell(saveCell(EmptyMap, Offset(-3, 0), 0), Offset(-2, 1), 0))}

\* items that are not a save of this version: a text that is not JSON, an
\* object without cellCache, an object whose cellCache is a number
MalformedItems ==
    {<< [text |-> "not json"] >>,
     << [playerLocation |-> Offset(1, 0), playerInventory |-> 2] >>,
     << [playerLocation |-> Offset(1, 0), playerInventory |-> 2,
         cellCacheValue |-> 7] >>}

StoredItems == {NoItem} \cup EarlierSaves \cup MalformedItems

\* the page has been evaluated in a browser that holds a stored item
InitLoad ==
    /\ seed = SessionSeed
    /\ localStorage \in StoredItems
    /\ playerLocation = latLngToCell(CLASSROOM_LOCATION)
    /\ playerInventory = null
    /\ cellCache = EmptyMap
    /\ LET r == renderGrid(playerLocation, EmptyMap, cellCache)
       IN  /\ cellTokens = r.cellTokens
           /\ gridElements = r.gridElements
    /\ storageAvailable = TRUE
    /\ alerts = <<>>
    /\ loaded = "none"
    /\ victories = 0
    /\ \E movementMode \in {"buttons", "geo"} :
          /\ currentMovement = movementMode
          /\ panelAttached = (movementMode = "buttons")
          /\ listeners = (IF movementMode = "buttons" THEN 1 ELSE 0)
          /\ watchId = (IF movementMode = "geo" THEN 1 ELSE null)

NextLoad ==
    \/ callLoadGameState
    \/ saveThenLoad
    \/ Next

SpecLoad == InitLoad /\ [][NextLoad]_vars

\* ------------------------------------------------------------------------
\* Restarts: the page is loaded again in the same browser
\* ------------------------------------------------------------------------
\* the module is evaluated again; localStorage is what the browser keeps.
\* No statement of the module calls _loadGameState.
reload ==
    /\ playerLocation' = latLngToCell(CLASSROOM_LOCATION)
    /\ playerInventory' = null
    /\ cellCache' = EmptyMap
    /\ LET r == renderGrid(playerLocation', EmptyMap, EmptyMap)
       IN  /\ cellTokens' = r.cellTokens
           /\ gridElements' = r.gridElements
    /\ alerts' = <<>>
    /\ loaded' = "none"
    /\ victories' = 0
    /\ \E movementMode \in {"buttons", "geo"} :
          /\ currentMovement' = movementMode
          /\ panelAttached' = (movementMode = "buttons")
          /\ listeners' = (IF movementMode = "buttons" THEN 1 ELSE 0)
          /\ watchId' = (IF movementMode = "geo" THEN 1 ELSE null)
    /\ UNCHANGED <<localStorage, storageAvailable, seed>>

InitRestart == Init /\ seed = SessionSeed

\* one session of the page under that hash function, without reload
SpecSession == InitRestart /\ [][Next]_vars

NextRestart ==
    \/ reload
    \/ Next

SpecRestart == InitRestart /\ [][NextRestart]_vars

\* ------------------------------------------------------------------------
\* Storage quota: localStorage.setItem throws while the quota is used up
\* ------------------------------------------------------------------------
\* the origin's storage fills up (by another page of the origin) and stays
\* full; no handler of this page runs
quotaChange ==
    /\ storageAvailable
    /\ storageAvailable' = FALSE
    /\ UNCHANGED <<playerLocation, playerInventory, cellTokens, cellCache,
                   gridElements, localStorage, alerts, currentMovement,
                   panelAttached, listeners, watchId, seed, loaded, victories>>

NextQuota ==
    \/ quotaChange
    \/ Next

SpecQuota == InitRestart /\ [][NextQuota]_vars

\* ------------------------------------------------------------------------
\* Late game: play that has reached the target value
\* ------------------------------------------------------------------------
\* the hash function with 64 spawning cells
LateSeed == 3

\* the two cells on which the player has crafted the tokens of the block
\* together, 32 generated tokens each
Hoards == {Offset(-3, 0), Offset(-3, 1)}

\* the override store once every token of the block has been picked up or
\* crafted onto: value 32 on the two hoards, picked up everywhere else
LateCache ==
    [key \in LuckyKeys[LateSeed] |->
        [i |-> key[1], j |-> key[2],
         coins |-> IF [i |-> key[1], j |-> key[2]] \in Hoards
                   THEN TARGET_TOKEN_VALUE ELSE 0]]

\* the player is back at the start cell with an empty inventory; no token of
\* value 32 has been picked up yet
InitWin ==
    /\ seed = LateSeed
    /\ playerLocation = latLngToCell(CLASSROOM_LOCATION)
    /\ playerInventory = null
    /\ cellCache = LateCache
    /\ LET r == renderGrid(playerLocation, EmptyMap, cellCache)
       IN  /\ cellTokens = r.cellTokens
           /\ gridElements = r.gridElements
    /\ localStorage = saveGameState(playerLocation, playerInventory, cellCache)
    /\ storageAvailable = TRUE
    /\ alerts = <<>>
    /\ loaded = "none"
    /\ victories = 0
    /\ \E movementMode \in {"buttons", "geo"} :
          /\ currentMovement = movementMode
          /\ panelAttached = (movementMode = "buttons")
          /\ listeners = (IF movementMode = "buttons" THEN 1 ELSE 0)
          /\ watchId = (IF movementMode = "geo" THEN 1 ELSE null)

\* play without New Game
NextWin ==
    \/ north
    \/ south
    \/ west
    \/ east
    \/ reset
    \/ \E position \in GeoFixes : watchPosition(position)
    \/ \E mode \in {"buttons", "geo"} : switchMovementMode(mode)
    \/ rectClick

SpecWin == InitWin /\ [][NextWin]_vars

\* ------------------------------------------------------------------------
\* The earlier version of the page (movement and crafting, no override
\* store, no save, one panel).  Its functions carry the names of the source
\* with the suffix Earlier; getCellKey, latLngToCell, cellDistance,
\* shouldCellHaveToken and checkWinCondition read the same in both versions.
\* ------------------------------------------------------------------------
\* crafts are explored up to this token value
MaxValue == 4

isInteractableEarlier(cell, loc) == cellDistance(cell, loc) <= 3

initializeCellTokenEarlier(ct, cell) ==
    LET key == getCellKey(cell)
    IN  IF key \notin DOMAIN ct /\ shouldCellHaveToken(cell)
        THEN MapSet(ct, key, 1)
        ELSE ct

\* cellTokens after the loop has called initializeCellTokenEarlier on every
\* cell (each call reads and writes the key of its own cell only)
initializeLoopEarlier(cells, ct) ==
    LET after == {initializeCellTokenEarlier(ct, cells[n]) : n \in 1..Len(cells)}
        keys == UNION {DOMAIN m : m \in after}
    IN  [k \in keys |-> IF k \in DOMAIN ct THEN ct[k]
                        ELSE (CHOOSE m \in after : k \in DOMAIN m)[k]]

\* no key is ever removed from cellTokens by the render
renderGridEarlier(playerCell, ct) ==
    LET cells == loopCells(playerCell)
    IN  [cellTokens   |-> initializeLoopEarlier(cells, ct),
         gridElements |-> cells]

\* what the earlier version does not have stays as it is
EarlierFrame ==
    UNCHANGED <<cellCache, localStorage, storageAvailable, currentMovement,
                panelAttached, listeners, watchId, seed, loaded>>

movePlayerEarlier(di, dj) ==
    LET loc == [i |-> playerLocation.i + di, j |-> playerLocation.j + dj]
        r == renderGridEarlier(loc, cellTokens)
    IN  /\ InBox(loc)
        /\ playerLocation' = loc
        /\ cellTokens' = r.cellTokens
        /\ gridElements' = r.gridElements
        /\ alerts' = <<>>
        /\ UNCHANGED <<playerInventory, victories>>
        /\ EarlierFrame

northEarlier == movePlayerEarlier(1, 0)

southEarlier == movePlayerEarlier(-1, 0)

westEarlier == movePlayerEarlier(0, -1)

eastEarlier == movePlayerEarlier(0, 1)

resetEarlier ==
    LET loc == latLngToCell(CLASSROOM_LOCATION)
        r == renderGridEarlier(loc, cellTokens)
    IN  /\ playerLocation' = loc
        /\ cellTokens' = r.cellTokens
        /\ gridElements' = r.gridElements
        /\ alerts' = <<>>
        /\ UNCHANGED <<playerInventory, victories>>
        /\ EarlierFrame

\* the tail of a successful pickup or craft: renderGrid, alerts
finishClickEarlier(inv, ct, said) ==
    LET r == renderGridEarlier(playerLocation, ct)
    IN  /\ playerInventory' = inv
        /\ cellTokens' = r.cellTokens
        /\ gridElements' = r.gridElements
        /\ alerts' = said \o checkWinCondition(inv)
        /\ victories' = victories + Len(checkWinCondition(inv))
        /\ UNCHANGED playerLocation

handleCellClickEarlier(cell) ==
    /\ LET key == getCellKey(cell)
       IN  IF ~isInteractableEarlier(cell, playerLocation) THEN rejectClick("tooFar")
           ELSE IF playerInventory = null
           THEN IF key \in DOMAIN cellTokens
                THEN finishClickEarlier(cellTokens[key], MapDelete(cellTokens, key), <<>>)
                ELSE rejectClick("empty")
           ELSE IF key \notin DOMAIN cellTokens THEN rejectClick("emptyCraft")
           ELSE IF cellTokens[key] = playerInventory
           THEN /\ cellTokens[key] * 2 <= MaxValue
                /\ finishClickEarlier(null, MapSet(cellTokens, key, cellTokens[key] * 2),
                                      <<"crafted">>)
           ELSE rejectClick("mismatch")
    /\ EarlierFrame

rectClickEarlier ==
    \E n \in 1..Len(gridElements) :
        /\ gridElements[n] \in ClickTargets
        /\ handleCellClickEarlier(gridElements[n])

InitEarlier ==
    /\ seed = SessionSeed
    /\ playerLocation = latLngToCell(CLASSROOM_LOCATION)
    /\ playerInventory = null
    /\ LET r == renderGridEarlier(playerLocation, EmptyMap)
       IN  /\ cellTokens = r.cellTokens
           /\ gridElements = r.gridElements
    /\ cellCache = EmptyMap
    /\ localStorage = NoItem
    /\ storageAvailable = TRUE
    /\ alerts = <<>>
    /\ currentMovement = "buttons"
    /\ panelAttached = TRUE
    /\ listeners = 1
    /\ watchId = null
    /\ loaded = "none"
    /\ victories = 0

NextEarlier ==
    \/ northEarlier
    \/ southEarlier
    \/ westEarlier
    \/ eastEarlier
    \/ resetEarlier
    \/ rectClickEarlier

SpecEarlier == InitEarlier /\ [][NextEarlier]_vars

\* ------------------------------------------------------------------------
\* Vocabulary of the properties
\* ------------------------------------------------------------------------
Chebyshev(a, b) ==
    LET di == IF a.i >= b.i THEN a.i - b.i ELSE b.i - a.i
        dj == IF a.j >= b.j THEN a.j - b.j ELSE b.j - a.j
    IN  IF di >= dj THEN di ELSE dj

\* the active window: the cells within the viewing radius of cell p
Window(p) ==
    {[i |-> p.i + di, j |-> p.j + dj] :
        di \in (-NEIGHBORHOOD_SIZE)..NEIGHBORHOOD_SIZE,
        dj \in (-NEIGHBORHOOD_SIZE)..NEIGHBORHOOD_SIZE}

\* the rectangles a click is tried on in the current state
Clickable == {gridElements[n] : n \in 1..Len(gridElements)} \cap ClickTargets

HasToken(cell) == getCellKey(cell) \in DOMAIN cellTokens

\* the override store says: picked up
PickedUp(key) == key \in DOMAIN cellCache /\ cellCache[key].coins = 0

EmptyCellAlerts == {<<"empty">>, <<"emptyCraft">>}

Rejections == {<<"tooFar">>, <<"empty">>, <<"emptyCraft">>, <<"mismatch">>}

\* a step of the full game reset
FullReset == cellCache' = EmptyMap /\ localStorage' = NoItem /\ playerInventory' = null

\* a picked-up cell is empty between handlers, and stays picked up and empty
\* over every step but the full game reset
StaysEmpty ==
    /\ [](\A key \in DOMAIN cellCache : PickedUp(key) => key \notin DOMAIN cellTokens)
    /\ [][\A key \in DOMAIN cellCache :
            PickedUp(key) =>
                \/ FullReset
                \/ /\ key \in DOMAIN cellCache'
                   /\ cellCache'[key].coins = 0
                   /\ key \notin DOMAIN cellTokens']_vars

\* C1 as stated: once a cell has been picked up it is empty in every later
\* state, whatever moves, position updates, pickups and crafts follow, until a
\* full game reset, and every later click on it is answered with the
\* empty-cell error.
C1_AnyLaterClickReportsEmptyCell ==
    /\ StaysEmpty
    /\ [][\A cell \in Clickable :
            (PickedUp(getCellKey(cell)) /\ handleCellClick(cell)) =>
                alerts' \in EmptyCellAlerts]_vars

\* C1: once a cell has been picked up it is empty in every later state, and
\* its empty-marker record stays, whatever moves, position updates, pickups
\* and crafts follow, until a full game reset; a later click on it is answered
\* with the empty-cell error whenever the cell is within interaction range
\* (out of range it is answered with the out-of-range error).
C1_PickedUpStaysEmpty ==
    /\ StaysEmpty
    /\ [][\A cell \in Clickable :
            (PickedUp(getCellKey(cell)) /\ handleCellClick(cell)) =>
                alerts' \in (IF Chebyshev(cell, playerLocation) <= INTERACT_DISTANCE
                             THEN EmptyCellAlerts ELSE {<<"tooFar">>})]_vars

\* a picked-up cell in range, away from the start, and a click answered "empty"
C1_Witness ==
    /\ \E key \in DOMAIN cellCache :
          /\ PickedUp(key)
          /\ Chebyshev([i |-> key[1], j |-> key[2]], playerLocation) <= INTERACT_DISTANCE
    /\ alerts \in EmptyCellAlerts
    /\ playerLocation # StartCell

\* C2: between handlers, every cell of the current window is materialized as
\* the override store says if it has a record for the cell (coins > 0: that
\* value; coins = 0: no token), and as the generator says otherwise (a token
\* of value 1 exactly where the spawn decision is true).
C2_WindowIsMergeOfStoreAndGenerator ==
    \A cell \in Window(playerLocation) :
        LET key == getCellKey(cell)
        IN  IF key \in DOMAIN cellCache
            THEN IF cellCache[key].coins > 0
                 THEN key \in DOMAIN cellTokens /\ cellTokens[key] = cellCache[key].coins
                 ELSE key \notin DOMAIN cellTokens
            ELSE IF shouldCellHaveToken(cell)
                 THEN key \in DOMAIN cellTokens /\ cellTokens[key] = 1
                 ELSE key \notin DOMAIN cellTokens

\* the window holds a crafted cell, a picked-up cell and an untouched token
C2_Witness ==
    /\ \E key \in DOMAIN cellCache : cellCache[key].coins > 0 /\ key \in DOMAIN cellTokens
    /\ \E key \in DOMAIN cellCache : cellCache[key].coins = 0
    /\ \E key \in DOMAIN cellTokens : key \notin DOMAIN cellCache
    /\ playerLocation # StartCell

\* C3: a click on an interactable cell holding v, with an empty inventory,
\* leaves the inventory holding v, the cell without token and an empty-marker
\* record (coins = 0) for the cell in the override store.
C3_Pickup ==
    [][\A cell \in Clickable :
        LET key == getCellKey(cell)
        IN  ( /\ playerInventory = null
              /\ Chebyshev(cell, playerLocation) <= INTERACT_DISTANCE
              /\ key \in DOMAIN cellTokens
              /\ handleCellClick(cell) )
            => /\ playerInventory' = cellTokens[key]
               /\ key \notin DOMAIN cellTokens'
               /\ key \in DOMAIN cellCache'
               /\ cellCache'[key].coins = 0]_vars

\* the state after a pickup
C3_Witness ==
    /\ playerInventory # null
    /\ \E key \in DOMAIN cellCache : cellCache[key].coins = 0
    /\ alerts = <<>>

C5_FailedClickChangesNothing ==
    [][\A cell \in Clickable :
        LET key == getCellKey(cell)
        IN  ( /\ handleCellClick(cell)
              /\ \/ Chebyshev(cell, playerLocation) > 3
                 \/ key \notin DOMAIN cellTokens
                 \/ playerInventory # null /\ cellTokens[key] # playerInventory )
            => UNCHANGED <<playerLocation, playerInventory, cellTokens, cellCache,
                           gridElements, localStorage>>]_vars

\* a mismatch was just rejected, with a save in place
C5_Witness ==
    /\ alerts = <<"mismatch">>
    /\ localStorage # NoItem
    /\ playerInventory # null

\* C6: a click at Chebyshev distance > 3 is answered out-of-range whatever
\* the inventory and the cell hold; within range a click on an empty cell is
\* answered empty-cell (inventory empty or not); within range, holding v, a
\* click on a cell of another value is answered mismatch; no other click is
\* rejected.
C6_ErrorClassification ==
    [][\A cell \in Clickable :
        handleCellClick(cell) =>
            LET key == getCellKey(cell)
            IN  IF Chebyshev(cell, playerLocation) > 3 THEN alerts' = <<"tooFar">>
                ELSE IF key \notin DOMAIN cellTokens THEN alerts' \in EmptyCellAlerts
                ELSE IF playerInventory # null /\ cellTokens[key] # playerInventory
                     THEN alerts' = <<"mismatch">>
                     ELSE alerts' \notin Rejections]_vars

\* an out-of-range click on a cell that holds a token was just rejected
C6_Witness ==
    /\ alerts = <<"tooFar">>
    /\ \E cell \in Clickable :
          /\ HasToken(cell)
          /\ Chebyshev(cell, playerLocation) > 3
    /\ playerInventory # null

\* C7: a step adds a record to the override store only if it is a successful
\* pickup or craft, and then it adds the record of the clicked cell and no
\* other; rendering, moving and position updates add none.
C7_Flyweight ==
    [][LET added == (DOMAIN cellCache') \ (DOMAIN cellCache)
       IN  added # {} =>
              \E cell \in Clickable :
                  /\ handleCellClick(cell)
                  /\ added = {getCellKey(cell)}
                  /\ alerts' \notin Rejections
                  /\ playerInventory' # playerInventory]_vars

\* many cells have been viewed (the player is far from the start, with a
\* token in view that has no record) and the store holds two records
C7_Witness ==
    /\ Cardinality(DOMAIN cellCache) = 2
    /\ playerLocation.i >= StartCell.i + 3
    /\ \E key \in DOMAIN cellTokens : key \notin DOMAIN cellCache

\* C8: the key set of the override store only grows, except in the full game
\* reset; the window eviction of renderGrid removes no record.
C8_NoImplicitEviction ==
    [][\/ (DOMAIN cellCache) \subseteq (DOMAIN cellCache')
       \/ resetGame /\ FullReset]_vars

\* a record of a cell that is outside the current window
C8_Witness ==
    \E key \in DOMAIN cellCache :
        Chebyshev([i |-> key[1], j |-> key[2]], playerLocation) > NEIGHBORHOOD_SIZE

\* C9: between handlers every key of cellTokens is a cell within Chebyshev
\* distance 8 of the player's cell, so cellTokens has at most 289 entries.
C9_BoundedMaterializedMemory ==
    /\ \A key \in DOMAIN cellTokens :
          Chebyshev([i |-> key[1], j |-> key[2]], playerLocation) <= 8
    /\ Cardinality(DOMAIN cellTokens) <= 289

\* a token that was in view at the start is out of view, and the player has
\* touched no cell
C9_Witness ==
    /\ cellCache = EmptyMap
    /\ \E cell \in LuckyCells[seed] :
          Chebyshev(cell, playerLocation) > NEIGHBORHOOD_SIZE
    /\ \E cell \in LuckyCells[seed] : HasToken(cell)

\* C10: a materialization covers exactly the (2R+1)^2 cells within Chebyshev
\* distance R = NEIGHBORHOOD_SIZE of the player's cell, each once.
C10_WindowIsChebyshevBall ==
    LET covered == {gridElements[n] : n \in 1..Len(gridElements)}
    IN  /\ Len(gridElements) = (2 * NEIGHBORHOOD_SIZE + 1) * (2 * NEIGHBORHOOD_SIZE + 1)
        /\ Cardinality(covered) = Len(gridElements)
        /\ \A cell \in covered : Chebyshev(cell, playerLocation) <= NEIGHBORHOOD_SIZE
        /\ \A di \in (-NEIGHBORHOOD_SIZE)..NEIGHBORHOOD_SIZE :
             \A dj \in (-NEIGHBORHOOD_SIZE)..NEIGHBORHOOD_SIZE :
                [i |-> playerLocation.i + di, j |-> playerLocation.j + dj] \in covered

\* a materialization after the player has visited other cells and come back
\* north-east of the start
C10_Witness ==
    /\ playerLocation = Offset(1, 1)
    /\ localStorage # NoItem
    /\ Len(gridElements) = 289
    /\ cellCache # EmptyMap

\* ------------------------------------------------------------------------
\* Persistence
\* ------------------------------------------------------------------------
\* a step of a successful pickup or craft (the inventory changes), of a manual
\* move or an accepted position update (the location changes), or of the
\* panel's return-home button pressed at home
Transition ==
    /\ \/ playerLocation' # playerLocation
       \/ playerInventory' # playerInventory
       \/ cellCache' # cellCache
       \/ playerLocation = StartCell /\ reset
    /\ ~(FullReset /\ resetGame)

\* C11: when a successful pickup, craft, manual move or accepted position
\* update returns, the persisted save holds the current player location, the
\* current inventory and every record of the current override store, the
\* record written by that same transition included.
C11_WriteThrough ==
    [][Transition =>
          /\ Len(localStorage') = 1
          /\ localStorage'[1].playerLocation = playerLocation'
          /\ localStorage'[1].playerInventory = playerInventory'
          /\ localStorage'[1].cellCache = {cellCache'[key] : key \in DOMAIN cellCache'}]_vars

\* a craft has just returned, away from the start, and the save holds its record
C11_Witness ==
    /\ alerts = <<"crafted">>
    /\ playerLocation # StartCell
    /\ localStorage # NoItem
    /\ \E memento \in localStorage[1].cellCache :
          /\ memento.coins = 2
          /\ cellCache[getCellKey(memento)].coins = 2

\* C12: in every reachable state, saveGameState followed by _loadGameState
\* succeeds and leaves the player location, the inventory and the override
\* store (same keys, same records) as they were.
C12_RoundTrip ==
    [][saveThenLoad =>
          /\ loaded' = "true"
          /\ playerLocation' = playerLocation
          /\ playerInventory' = playerInventory
          /\ DOMAIN cellCache' = DOMAIN cellCache
          /\ \A key \in DOMAIN cellCache : cellCache'[key] = cellCache[key]]_vars

\* a state with a picked-up and a crafted cell and a held token has been
\* saved and loaded
C12_Witness ==
    /\ loaded = "true"
    /\ localStorage = saveGameState(playerLocation, playerInventory, cellCache)
    /\ \E key \in DOMAIN cellCache : cellCache[key].coins = 0
    /\ \E key \in DOMAIN cellCache : cellCache[key].coins = 2
    /\ playerLocation = Offset(3, 1)

\* C13: when the page starts and a save exists, player location, inventory
\* and override store are restored from it before the first window is
\* materialized, so that the first window shows every saved override that
\* lies in it.
C13_SaveRestoredAtStartup ==
    [][(reload /\ localStorage # NoItem) =>
          /\ playerLocation' = localStorage[1].playerLocation
          /\ playerInventory' = localStorage[1].playerInventory
          /\ \A memento \in localStorage[1].cellCache :
                LET key == getCellKey(memento)
                IN  /\ key \in DOMAIN cellCache'
                    /\ cellCache'[key] = memento
                    /\ Chebyshev(memento, playerLocation') <= NEIGHBORHOOD_SIZE =>
                          IF memento.coins = 0 THEN key \notin DOMAIN cellTokens'
                          ELSE /\ key \in DOMAIN cellTokens'
                               /\ cellTokens'[key] = memento.coins]_vars

\* C14: what a call of _loadGameState gives its caller (the value returned
\* and the in-memory state it leaves) when the stored item is corrupt differs
\* from what the same call gives when there is no stored item.
C14_AbsentAndCorruptDiffer ==
    [][(callLoadGameState /\ localStorage \in MalformedItems) =>
          LET absent == _loadGameState(NoItem, InMemory)
          IN  <<loaded', playerLocation', playerInventory', cellCache'>>
                  # <<absent.returned, absent.playerLocation,
                      absent.playerInventory, absent.cellCache>>]_vars

\* the default initial in-memory state
DefaultState ==
    /\ playerLocation = StartCell
    /\ playerInventory = null
    /\ cellCache = EmptyMap

\* C15: a call of _loadGameState from the default initial state with a
\* malformed stored item (a text that is not JSON, or JSON whose override list
\* is missing or not a list) reports failure and leaves the player at the
\* start cell, the inventory empty and the override store empty.
C15_MalformedSaveLeavesDefaults ==
    [][(callLoadGameState /\ localStorage \in MalformedItems /\ DefaultState) =>
          /\ loaded' = "false"
          /\ playerLocation' = StartCell
          /\ playerInventory' = null
          /\ cellCache' = EmptyMap]_vars

\* C16: after resetGameState, from any state, the override store is empty,
\* the inventory is empty, the player is at the start cell, the materialized
\* window holds exactly the generated tokens of the start window, there is no
\* stored item, and a load right after it fails and leaves these defaults.
C16_FullReset ==
    [][resetGameState =>
          /\ cellCache' = EmptyMap
          /\ playerInventory' = null
          /\ playerLocation' = StartCell
          /\ localStorage' = NoItem
          /\ DOMAIN cellTokens' =
                {getCellKey(cell) : cell \in {c \in Window(StartCell) : shouldCellHaveToken(c)}}
          /\ \A key \in DOMAIN cellTokens' : cellTokens'[key] = 1
          /\ LET again == _loadGameState(localStorage',
                              [playerLocation |-> playerLocation',
                               playerInventory |-> playerInventory',
                               cellCache |-> cellCache', returned |-> "none"])
             IN  /\ again.returned = "false"
                 /\ again.playerLocation = StartCell
                 /\ again.playerInventory = null
                 /\ again.cellCache = EmptyMap]_vars

\* a save had been loaded, and now there is no stored item and no record:
\* the game has been reset
C16_Witness ==
    /\ loaded = "true"
    /\ localStorage = NoItem
    /\ cellCache = EmptyMap
    /\ playerLocation = StartCell
    /\ playerInventory = null

\* ------------------------------------------------------------------------
\* Win notification
\* ------------------------------------------------------------------------
\* the last handler has shown the victory alert
Won == \E n \in 1..Len(alerts) : alerts[n] = "victory"

Holds(inv) == inv # null /\ inv >= TARGET_TOKEN_VALUE

\* the panel is there and a click on the button of direction (di, dj) moves
\* the player within the explored box: the guard of north, south, west, east
CanMove(di, dj) ==
    /\ panelAttached
    /\ InBox(dispatchMove(listeners, Current, di, dj).playerLocation)

\* a step of a successful pickup or craft
Success ==
    \E cell \in Clickable : handleCellClick(cell) /\ alerts' \notin Rejections

\* C17: in play without reset the win notification is shown at the first
\* transition after which the inventory holds a value >= 32, at no transition
\* before it, and at no transition after it: it is shown exactly once.
C17_WinNotifiedOnce ==
    /\ [][Won' => Holds(playerInventory')]_vars
    /\ [][(Holds(playerInventory') /\ ~Holds(playerInventory) /\ victories = 0) => Won']_vars
    /\ [](victories <= 1)

\* C18: a step shows the win notification if and only if it is a successful
\* pickup or craft after which the inventory holds a value >= 32; rejected
\* clicks and moves never show it; and in a state where it has just been
\* shown the player can still move (by a button of the panel in button mode,
\* by a position fix in geolocation mode), and can still craft when a cell in
\* range holds the held value.
C18_WinNotifiedWheneverTargetHeld ==
    /\ [][Won' <=> (Success /\ Holds(playerInventory'))]_vars
    /\ [](Won => (panelAttached \/ watchId # null))
    /\ [](Won /\ panelAttached => (CanMove(1, 0) \/ CanMove(-1, 0)))
    /\ [](Won /\ watchId # null =>
            ENABLED (\E position \in GeoFixes :
                        watchPosition(position) /\ playerLocation' # playerLocation))
    /\ [](Won =>
            \A cell \in Clickable :
                ( /\ Chebyshev(cell, playerLocation) <= 3
                  /\ HasToken(cell)
                  /\ cellTokens[getCellKey(cell)] = playerInventory )
                => ENABLED (handleCellClick(cell) /\ playerInventory' = null))

\* the win notification has just been shown for the second time: play went
\* on after the first, with a craft of 32 and 32 and a pickup of the result
C18_Witness ==
    /\ Won
    /\ victories = 2
    /\ playerInventory = 64

\* ------------------------------------------------------------------------
\* Determinism of the view
\* ------------------------------------------------------------------------
\* the window as a function of the player's cell p and the override store cc
\* alone: the value of the record where there is one, else 1 where the hash
\* of the key is below the spawn probability
View(p, cc) ==
    LET shown == {cell \in Window(p) :
                     IF getCellKey(cell) \in DOMAIN cc
                     THEN cc[getCellKey(cell)].coins > 0
                     ELSE luck(getCellKey(cell)) < CACHE_SPAWN_PROBABILITY}
    IN  [key \in {getCellKey(cell) : cell \in shown} |->
            IF key \in DOMAIN cc THEN cc[key].coins ELSE 1]

\* C19: the materialized window is a function of the player's cell and the
\* override store alone, whatever the history of moves and visits: any two
\* states with the same cell and store show the same window, and a cell
\* without record shows token 1 or nothing as its key alone decides.
C19_ViewDeterminedByCellAndStore ==
    /\ cellTokens = View(playerLocation, cellCache)
    /\ {gridElements[n] : n \in 1..Len(gridElements)} = Window(playerLocation)

\* the player has reached a cell by double steps after mode switches, with a
\* record in the store, a token in hand and an untouched token in view
C19_Witness ==
    /\ listeners = 2
    /\ playerLocation = Offset(4, 1)
    /\ playerInventory = 1
    /\ Cardinality(DOMAIN cellCache) = 1
    /\ \E key \in DOMAIN cellTokens : key \notin DOMAIN cellCache

\* C20: a position fix that resolves to the player's current cell changes
\* neither the player location, the inventory, the materialized window, the
\* override store nor the persisted save.
C20_SameCellFixChangesNothing ==
    [][\A position \in GeoFixes :
          ( /\ position.latitude \div TILE_DEGREES = playerLocation.i
            /\ position.longitude \div TILE_DEGREES = playerLocation.j
            /\ watchPosition(position) )
          => UNCHANGED <<playerLocation, playerInventory, cellTokens, cellCache,
                         gridElements, localStorage>>]_vars

\* a state in which the watch is registered, a save exists and a fix for the
\* player's own cell, away from the start, has been handled
C20_Witness ==
    /\ watchId # null
    /\ alerts = <<>>
    /\ localStorage # NoItem
    /\ playerLocation = Offset(1, 1)
    /\ \E position \in GeoFixes :
          latLngToCell([lat |-> position.latitude, lng |-> position.longitude])
              = playerLocation

\* ------------------------------------------------------------------------
\* Position updates
\* ------------------------------------------------------------------------
\* the cell a position fix resolves to
CellOf(position) ==
    [i |-> position.latitude \div TILE_DEGREES,
     j |-> position.longitude \div TILE_DEGREES]

\* a step of the watchPosition callback for the given fix (the frame of the
\* callback comes first: it tells most other steps apart at once)
PositionUpdate(position) ==
    /\ watchId # null
    /\ alerts' = <<>>
    /\ UNCHANGED <<playerInventory, cellCache, currentMovement>>
    /\ watchPosition(position)

\* C21: a position update that resolves to a cell c other than the player's
\* cell p leaves player location, materialized window, override store,
\* inventory and persisted save exactly as movePlayer(c.i - p.i, c.j - p.j)
\* would.
C21_PositionUpdateIsMovePlayer ==
    [][\A position \in GeoFixes :
          (CellOf(position) # playerLocation /\ PositionUpdate(position))
          => LET moved == movePlayer(Current,
                                     CellOf(position).i - playerLocation.i,
                                     CellOf(position).j - playerLocation.j)
             IN  /\ playerLocation' = moved.playerLocation
                 /\ cellTokens' = moved.cellTokens
                 /\ gridElements' = moved.gridElements
                 /\ localStorage' = moved.localStorage
                 /\ cellCache' = cellCache
                 /\ playerInventory' = playerInventory]_vars

\* the panel has never been enabled: position updates alone have brought the
\* player, token in hand, to the northernmost cell
C21_Witness ==
    /\ listeners = 0
    /\ playerLocation = Offset(MaxNorth, 0)
    /\ playerInventory # null
    /\ localStorage # NoItem
    /\ localStorage[1].playerLocation = playerLocation

\* what every handler finds when it starts: the save, if there is one, is the
\* state in memory, the rectangles are those around the player, and the
\* tokens on the map are those of the window cells
Settled ==
    /\ localStorage # NoItem =>
          /\ localStorage[1].playerLocation = playerLocation
          /\ localStorage[1].playerInventory = playerInventory
          /\ localStorage[1].cellCache = {cellCache[key] : key \in DOMAIN cellCache}
    /\ {gridElements[n] : n \in 1..Len(gridElements)} = Window(playerLocation)
    /\ DOMAIN cellTokens \subseteq {getCellKey(cell) : cell \in Window(playerLocation)}
    /\ \A key \in DOMAIN cellCache :
          Chebyshev([i |-> key[1], j |-> key[2]], playerLocation) <= NEIGHBORHOOD_SIZE
          => IF cellCache[key].coins = 0 THEN key \notin DOMAIN cellTokens
             ELSE key \in DOMAIN cellTokens /\ cellTokens[key] = cellCache[key].coins

\* C22: handlers run one at a time, each to completion: between two handlers
\* no half-written state is to be seen (the save, the rectangles and the
\* tokens all belong to the player's cell and the override store), and after
\* every position update the player is at the cell of that update, so after a
\* sequence of updates at the cell of the last one.
C22_HandlersRunToCompletion ==
    /\ []Settled
    /\ [][\A position \in GeoFixes :
             PositionUpdate(position) => playerLocation' = CellOf(position)]_vars

\* position updates alone (no panel, no click, hence no record) have moved the
\* player away and, by a later update, back to the start
C22_Witness ==
    /\ listeners = 0
    /\ cellCache = EmptyMap
    /\ localStorage # NoItem
    /\ playerLocation = StartCell

\* ------------------------------------------------------------------------
\* Pickup and craft: frame, inventory, values
\* ------------------------------------------------------------------------
\* C23: a successful pickup or craft changes the value and the override
\* record of the clicked cell, which is within Chebyshev distance 3 of the
\* player, and of no other cell; the player's location is unchanged.
C23_OnlyTheClickedCellChanges ==
    [][\A cell \in Clickable :
          ( /\ alerts' \notin Rejections
            /\ playerInventory' # playerInventory
            /\ handleCellClick(cell) )
          => LET key == getCellKey(cell)
             IN  /\ Chebyshev(cell, playerLocation) <= 3
                 /\ playerLocation' = playerLocation
                 /\ key \in DOMAIN cellTokens
                 /\ key \in DOMAIN cellTokens' => cellTokens'[key] # cellTokens[key]
                 /\ key \in DOMAIN cellCache'
                 /\ key \in DOMAIN cellCache => cellCache'[key] # cellCache[key]
                 /\ DOMAIN cellTokens' \ {key} = DOMAIN cellTokens \ {key}
                 /\ DOMAIN cellCache' \ {key} = DOMAIN cellCache \ {key}
                 /\ \A other \in DOMAIN cellTokens \ {key} :
                       cellTokens'[other] = cellTokens[other]
                 /\ \A other \in DOMAIN cellCache \ {key} :
                       cellCache'[other] = cellCache[other]]_vars

\* a craft has just been made next to an untouched token and a picked-up cell,
\* away from the start
C23_Witness ==
    /\ alerts = <<"crafted">>
    /\ playerLocation # StartCell
    /\ Cardinality(DOMAIN cellCache) = 2
    /\ Cardinality(DOMAIN cellTokens) = 3
    /\ \E key \in DOMAIN cellTokens : key \notin DOMAIN cellCache

\* C24: the inventory goes from empty to a value only by a successful pickup
\* of that value, from a value to empty only by a successful craft or the full
\* reset, and never from one value to another.
C24_InventoryDiscipline ==
    [][/\ (playerInventory = null /\ playerInventory' # null) =>
             \E cell \in Clickable :
                 /\ Chebyshev(cell, playerLocation) <= 3
                 /\ HasToken(cell)
                 /\ cellTokens[getCellKey(cell)] = playerInventory'
                 /\ getCellKey(cell) \notin DOMAIN cellTokens'
                 /\ handleCellClick(cell)
       /\ (playerInventory # null /\ playerInventory' = null) =>
             \/ FullReset /\ resetGame
             \/ \E cell \in Clickable :
                   /\ Chebyshev(cell, playerLocation) <= 3
                   /\ HasToken(cell)
                   /\ cellTokens[getCellKey(cell)] = playerInventory
                   /\ alerts' = <<"crafted">>
                   /\ handleCellClick(cell)
       /\ (playerInventory # null /\ playerInventory' # null) =>
             playerInventory' = playerInventory]_vars

\* a click on a token of another value has just been refused: the player still
\* holds the 1 picked up earlier, in sight of a crafted 2
C24_Witness ==
    /\ alerts = <<"mismatch">>
    /\ playerInventory = 1
    /\ \E key \in DOMAIN cellTokens : cellTokens[key] = 2

RECURSIVE IsPowerOfTwo(_)
IsPowerOfTwo(v) == v = 1 \/ (v > 1 /\ v % 2 = 0 /\ IsPowerOfTwo(v \div 2))

\* C25: every token value in a cell, in an override record with a token and
\* in the inventory is a power of two, and a value appears in a cell only as
\* a generated 1, as the value of the cell's record, or as the double of the
\* cell's value when the player held that same value.
C25_ValuesArePowersOfTwo ==
    /\ [](/\ \A key \in DOMAIN cellTokens : IsPowerOfTwo(cellTokens[key])
          /\ \A key \in DOMAIN cellCache :
                cellCache[key].coins # 0 => IsPowerOfTwo(cellCache[key].coins)
          /\ playerInventory # null => IsPowerOfTwo(playerInventory))
    /\ [][\A key \in DOMAIN cellTokens' :
             (key \notin DOMAIN cellTokens \/ cellTokens[key] # cellTokens'[key])
             => \/ cellTokens'[key] = 1 /\ key \notin DOMAIN cellCache'
                \/ /\ key \notin DOMAIN cellTokens
                   /\ key \in DOMAIN cellCache
                   /\ cellCache[key].coins = cellTokens'[key]
                \/ /\ key \in DOMAIN cellTokens
                   /\ playerInventory = cellTokens[key]
                   /\ cellTokens'[key] = 2 * cellTokens[key]]_vars

\* a token of value 4 lies in a cell and in its record
C25_Witness ==
    \E key \in DOMAIN cellTokens :
        /\ cellTokens[key] = 4
        /\ key \in DOMAIN cellCache
        /\ cellCache[key].coins = 4

\* ------------------------------------------------------------------------
\* Storage failure
\* ------------------------------------------------------------------------
\* C26: when the durable write fails during a move, pickup or craft, the
\* transition is complete in memory and the window has been recomputed for
\* the player's current cell: the rectangles are those around the player and
\* the tokens on the map are the merge of the override store and the
\* generator for that window.
C26_SessionConsistentAfterFailedWrite ==
    [][( /\ ~storageAvailable
         /\ ~quotaChange
         /\ playerLocation' # playerLocation \/ playerInventory' # playerInventory )
       => /\ {gridElements'[n] : n \in 1..Len(gridElements')} = Window(playerLocation')
          /\ cellTokens' = View(playerLocation', cellCache')]_vars

\* ------------------------------------------------------------------------
\* The movement panel
\* ------------------------------------------------------------------------
Shifted(di, dj) == [i |-> playerLocation.i + di, j |-> playerLocation.j + dj]

\* C27: whatever movement-mode switches came before, one click on a direction
\* button moves the player by exactly one cell in that direction (one run of
\* movePlayer: one save, one render).
C27_OneClickMovesOneCell ==
    [][/\ north => playerLocation' = Shifted(1, 0)
       /\ south => playerLocation' = Shifted(-1, 0)
       /\ west => playerLocation' = Shifted(0, -1)
       /\ east => playerLocation' = Shifted(0, 1)]_vars

\* ------------------------------------------------------------------------
\* The save across restarts
\* ------------------------------------------------------------------------
\* the keys of the override records held in a stored item
PersistedKeys(item) ==
    IF item = NoItem THEN {} ELSE {getCellKey(memento) : memento \in item[1].cellCache}

\* C28: over process restarts, moves, position updates, pickups and crafts,
\* every override record held in the persisted save stays in the persisted
\* save; only the full reset removes records from it.
C28_PersistedRecordsSurvive ==
    [][~(FullReset /\ resetGame)
       => PersistedKeys(localStorage) \subseteq PersistedKeys(localStorage')]_vars

\* ------------------------------------------------------------------------
\* Loading over a populated window
\* ------------------------------------------------------------------------
\* C29: once _loadGameState has succeeded, every later handler that renders
\* (a move, a position update, a pickup, a craft) leaves on the map, for
\* every window cell, the merge of the loaded override store and the
\* generator; no value materialized before the load survives against it.
C29_RenderAfterLoadFollowsLoadedStore ==
    [][( /\ loaded = "true"
         /\ ~callLoadGameState
         /\ ~saveThenLoad
         /\ playerLocation' # playerLocation \/ playerInventory' # playerInventory )
       => cellTokens' = View(playerLocation', cellCache')]_vars

\* C30: the panel's return-home button puts the player on the start cell,
\* writes the save and renders the window of the start cell; the inventory
\* and every override record are unchanged, and a save is in place afterwards
\* (the full game reset removes it).
C30_ReturnHome ==
    [][(panelAttached /\ playerLocation' = StartCell /\ reset)
       => /\ playerInventory' = playerInventory
          /\ cellCache' = cellCache
          /\ Len(localStorage') = 1
          /\ localStorage'[1].playerLocation = StartCell
          /\ localStorage'[1].playerInventory = playerInventory
          /\ localStorage'[1].cellCache = {cellCache[key] : key \in DOMAIN cellCache}
          /\ {gridElements'[n] : n \in 1..Len(gridElements')} = Window(StartCell)
          /\ cellTokens' = View(StartCell, cellCache)]_vars

\* the player is home, panel on the page, with a token in hand and a record
\* in the store, and the save says so
C30_Witness ==
    /\ panelAttached
    /\ alerts = <<>>
    /\ playerLocation = StartCell
    /\ playerInventory = 2
    /\ cellCache # EmptyMap
    /\ localStorage # NoItem
    /\ localStorage[1].playerLocation = StartCell
    /\ localStorage[1].playerInventory = 2

\* ------------------------------------------------------------------------
\* Movement providers
\* ------------------------------------------------------------------------
\* C31: exactly one movement provider is current at any time: the panel is
\* on the page only while button mode is current and a geolocation watch is
\* registered only while geolocation mode is current, so the panel and the
\* watch are never there together; a panel click moves the player only in
\* button mode and a position update only in geolocation mode.
C31_OneMovementProvider ==
    /\ [](/\ currentMovement \in {"buttons", "geo"}
          /\ panelAttached <=> currentMovement = "buttons"
          /\ watchId # null <=> currentMovement = "geo"
          /\ ~(panelAttached /\ watchId # null))
    /\ [][\A position \in GeoFixes :
             (playerLocation' # playerLocation /\ PositionUpdate(position))
             => currentMovement = "geo"]_vars
    /\ [][(playerLocation' = Shifted(1, 0) /\ north) => currentMovement = "buttons"]_vars

\* geolocation mode is current after button mode has been enabled twice: the
\* panel is off the page and the watch is registered
C31_Witness ==
    /\ listeners = 2
    /\ currentMovement = "geo"
    /\ ~panelAttached
    /\ watchId # null
    /\ playerLocation # StartCell

\* ------------------------------------------------------------------------
\* What the override store holds
\* ------------------------------------------------------------------------
\* C32: every override record belongs to a cell on which the generator
\* spawns, and stores 0 (picked up) or a power of two >= 2, never the
\* generated default 1; a cell on which the generator does not spawn never
\* holds a token.
C32_RecordsOnlyOnSpawnCells ==
    /\ \A key \in DOMAIN cellCache :
          /\ luck(key) < CACHE_SPAWN_PROBABILITY
          /\ key = <<cellCache[key].i, cellCache[key].j>>
          /\ cellCache[key].coins # 1
          /\ cellCache[key].coins = 0
                \/ (cellCache[key].coins >= 2 /\ IsPowerOfTwo(cellCache[key].coins))
    /\ \A key \in DOMAIN cellTokens : luck(key) < CACHE_SPAWN_PROBABILITY

\* the store holds two picked-up records and a crafted one; the player holds
\* a generated 1 and has just been refused to put it on an empty cell
C32_Witness ==
    /\ playerInventory = 1
    /\ \E key \in DOMAIN cellCache : cellCache[key].coins = 2
    /\ Cardinality({key \in DOMAIN cellCache : cellCache[key].coins = 0}) = 2
    /\ alerts = <<"emptyCraft">>

\* ------------------------------------------------------------------------
\* Conservation of token value
\* ------------------------------------------------------------------------
\* the bounded lattice: every cell of every window the player can stand in
Lattice ==
    {Offset(di, dj) :
        di \in (-NEIGHBORHOOD_SIZE)..(MaxNorth + NEIGHBORHOOD_SIZE),
        dj \in (-NEIGHBORHOOD_SIZE)..(MaxEast + NEIGHBORHOOD_SIZE)}

RECURSIVE SumCoins(_, _)
SumCoins(cc, keys) ==
    IF keys = {} THEN 0
    ELSE LET key == CHOOSE k \in keys : TRUE
         IN  cc[key].coins + SumCoins(cc, keys \ {key})

\* the value of every cell of the lattice (the record's value where there is
\* a record, else 1 where the generator spawns, else 0) plus the held value
TotalValue(cc, inv) ==
    Cardinality({cell \in Lattice :
                    /\ getCellKey(cell) \notin DOMAIN cc
                    /\ luck(getCellKey(cell)) < CACHE_SPAWN_PROBABILITY})
    + SumCoins(cc, DOMAIN cc)
    + (IF inv = null THEN 0 ELSE inv)

\* C33: the total token value on the lattice plus the held value is the same
\* after every move, position update, pickup, craft and refused click; the
\* full reset restores the initial total.
C33_ValueIsConserved ==
    /\ [][\/ UNCHANGED <<cellCache, playerInventory>>
          \/ FullReset /\ resetGame
          \/ TotalValue(cellCache', playerInventory')
                 = TotalValue(cellCache, playerInventory)]_vars
    /\ [][(FullReset /\ resetGame)
          => TotalValue(cellCache', playerInventory')
                 = TotalValue(EmptyMap, null)]_vars
    /\ [](DOMAIN cellCache \subseteq {getCellKey(cell) : cell \in Lattice})

\* four generated tokens have become one token of value 4, away from the start
C33_Witness ==
    /\ playerInventory = null
    /\ playerLocation # StartCell
    /\ TotalValue(cellCache, playerInventory) = 4
    /\ \E key \in DOMAIN cellCache : cellCache[key].coins = 4
    /\ Cardinality({key \in DOMAIN cellCache : cellCache[key].coins = 0}) = 3

\* ------------------------------------------------------------------------
\* The earlier version
\* ------------------------------------------------------------------------
\* C34: in the earlier version, after a successful pickup at a cell the cell
\* holds no token when handleCellClick returns (and so on the renders that
\* follow): the same spawn cell is not picked up from twice.
C34_EarlierPickupEmptiesCell ==
    [][\A cell \in Clickable :
          ( /\ playerInventory = null
            /\ playerInventory' # null
            /\ handleCellClickEarlier(cell) )
          => getCellKey(cell) \notin DOMAIN cellTokens']_vars

====
